---- MODULE Spec2Model ----
(***************************************************************************)
(* Model of the book's code: the exercise solutions fromNullable,          *)
(* parseString (chapter 4), mapLeft (chapter 5), isValidName and greetUser *)
(* (chapter 3), and the functions the chapters define or describe: map,    *)
(* match and fromPredicate for Option and Either, pipe and flow.           *)
(* A behaviour is one pipe(...) expression being evaluated left to right:  *)
(* vals[1] is the initial value, steps[i] the i-th function of the pipe,   *)
(* vals[i+1] what it returned and calls[i] the callbacks it invoked, in    *)
(* order.                                                                  *)
(***************************************************************************)
EXTENDS Integers, Sequences, FiniteSets, TLC

VARIABLES steps, vals, calls

vars == <<steps, vals, calls>>

(* ---------------------------- bounds ----------------------------------- *)

MaxLen == 6

MaxPatternLen == 2

MaxNum == 2

MaxSteps == 3

MaxFns == 2

MaxNested == 1

Alphabet == {"a", "b"}

(* ------------------------ JavaScript values ---------------------------- *)

Undefined == [t |-> "undefined"]

Null == [t |-> "null"]

Num(n) == [t |-> "number", num |-> n]

Str(s) == [t |-> "string", str |-> s]

Bool(b) == [t |-> "boolean", bool |-> b]

IsPrimitive(a) == "t" \in DOMAIN a

\* typeof a
typeof(a) == IF a.t = "null" THEN "object" ELSE a.t

\* a === b on primitives
StrictEq(a, b) == a.t = b.t /\ a = b

StringsUpTo(n) == UNION {[1..k -> Alphabet] : k \in 0..n}

Strings == StringsUpTo(MaxLen)

Patterns == StringsUpTo(MaxPatternLen)

JsValues ==
  {Undefined, Null, Num(0), Num(1), Str(<<>>), Str(<<"a">>), Bool(FALSE), Bool(TRUE)}

(* --------------------------- Either, Option ---------------------------- *)

left(e) == [tag |-> "Left", left |-> e]

right(a) == [tag |-> "Right", right |-> a]

IsEither(ma) == "tag" \in DOMAIN ma /\ ma.tag \in {"Left", "Right"}

isLeft(ma) == ma.tag = "Left"

isRight(ma) == ma.tag = "Right"

some(a) == [tag |-> "Some", value |-> a]

none == [tag |-> "None"]

(* ------------------- the functions passed as callbacks ----------------- *)

Fns == {"increment", "multBy10", "identity"}

Apply(f, x) ==
  CASE f = "increment" -> Num(x.num + 1)
    [] f = "multBy10"  -> Num(x.num * 10)
    [] f = "identity"  -> x

Call(f, x) == [fn |-> f, arg |-> x]

(* ------------------------------ chapter 2 ------------------------------ *)

\* the functions the chapter composes: increment and multBy10
PipeFns == {"increment", "multBy10"}

FnsUpTo(n) == UNION {[1..k -> PipeFns] : k \in 0..n}

\* pipe(a, f1, ..., fn): a is threaded through the functions, first to last
RECURSIVE pipe(_, _)
pipe(a, fs) ==
  IF fs = <<>>
    THEN [ret |-> a, calls |-> <<>>]
    ELSE LET r == pipe(Apply(Head(fs), a), Tail(fs))
         IN  [ret |-> r.ret, calls |-> <<Call(Head(fs), a)>> \o r.calls]

RECURSIVE flowRightToLeft(_, _)
flowRightToLeft(fs, a) ==
  IF Len(fs) = 1
    THEN [ret |-> Apply(fs[1], a), calls |-> <<Call(fs[1], a)>>]
    ELSE LET r == flowRightToLeft(Tail(fs), a)
         IN  [ret   |-> Apply(Head(fs), r.ret),
              calls |-> Append(r.calls, Call(Head(fs), r.ret))]

\* flow(a, b, c)(x) === c(b(a(x)))
RECURSIVE flow(_, _)
flow(fs, a) ==
  IF Len(fs) = 1
    THEN [ret |-> Apply(fs[1], a), calls |-> <<Call(fs[1], a)>>]
    ELSE LET r == flow(SubSeq(fs, 1, Len(fs) - 1), a)
         IN  [ret   |-> Apply(fs[Len(fs)], r.ret),
              calls |-> Append(r.calls, Call(fs[Len(fs)], r.ret))]

(* ------------------------------ chapter 4 ------------------------------ *)

fromNullableNullOnly(defaultValue, a) ==
  IF StrictEq(a, Null) THEN left(defaultValue) ELSE right(a)

IsFalsy(a) ==
  \/ a.t \in {"undefined", "null"}
  \/ a.t = "number" /\ a.num = 0
  \/ a.t = "string" /\ a.str = <<>>
  \/ a.t = "boolean" /\ a.bool = FALSE

fromNullableFalsy(defaultValue, a) ==
  IF IsFalsy(a) THEN left(defaultValue) ELSE right(a)

fromNullable(defaultValue, a) ==
  IF typeof(a) = "undefined" \/ StrictEq(a, Null)
    THEN left(defaultValue)
    ELSE right(a)

\* String.prototype.indexOf(r, from), positions counted from 0, -1 if absent
RECURSIVE StringIndexOf(_, _, _)
StringIndexOf(s, r, from) ==
  IF from + Len(r) > Len(s) THEN -1
  ELSE IF SubSeq(s, from + 1, from + Len(r)) = r THEN from
  ELSE StringIndexOf(s, r, from + 1)

RECURSIVE SplitFrom(_, _, _)
SplitFrom(s, r, i) ==
  LET j == StringIndexOf(s, r, i)
  IN  IF j = -1
        THEN <<SubSeq(s, i + 1, Len(s))>>
        ELSE <<SubSeq(s, i + 1, j)>> \o SplitFrom(s, r, j + Len(r))

\* String.prototype.split(separator) without a limit
split(s, r) ==
  IF Len(r) = 0 THEN [k \in 1..Len(s) |-> <<s[k]>>]
  ELSE IF Len(s) = 0 THEN <<s>>
  ELSE SplitFrom(s, r, 0)

\* array destructuring: element k (from 0) or undefined
Element(arr, k) == IF k < Len(arr) THEN Str(arr[k + 1]) ELSE Undefined

CouldNotParse ==
  Str(<<"c", "o", "u", "l", "d", " ", "n", "o", "t", " ", "p", "a", "r", "s", "e">>)

parseString(pattern, input) ==
  LET arr  == split(input, pattern)
      f    == Element(arr, 0)
      rest == Element(arr, 1)
  IN  IF StrictEq(f, Str(<<>>)) THEN right(rest) ELSE left(CouldNotParse)

\* what reading a property of undefined produces
TypeError(name) == [thrown |-> "TypeError", name |-> name]

\* parseString(pattern)(fa.right) for a Right fa, the second of two parses in
\* sequence; input.split of an undefined input throws
parseRemainder(pattern, fa) ==
  IF fa.right.t = "string" THEN parseString(pattern, fa.right.str)
  ELSE TypeError("split")

(* ------------------------------ chapter 5 ------------------------------ *)

mapLeftBoth(f, fa) ==
  IF isRight(fa)
    THEN IF fa.right.t = "number"
           THEN [ret |-> right(Apply(f, fa.right)), calls |-> <<Call(f, fa.right)>>]
           ELSE [ret |-> fa, calls |-> <<>>]
    ELSE [ret |-> left(Apply(f, fa.left)), calls |-> <<Call(f, fa.left)>>]

mapLeftToRight(f, fa) ==
  IF isRight(fa)
    THEN [ret |-> fa, calls |-> <<>>]
    ELSE [ret |-> right(Apply(f, fa.left)), calls |-> <<Call(f, fa.left)>>]

mapLeftTwice(f, fa) ==
  IF isRight(fa)
    THEN [ret |-> fa, calls |-> <<>>]
    ELSE [ret   |-> left(Apply(f, Apply(f, fa.left))),
          calls |-> <<Call(f, fa.left), Call(f, Apply(f, fa.left))>>]

mapLeftSkip(f, fa) == [ret |-> fa, calls |-> <<>>]

mapLeft(f, fa) ==
  IF isRight(fa)
    THEN [ret |-> fa, calls |-> <<>>]
    ELSE [ret |-> left(Apply(f, fa.left)), calls |-> <<Call(f, fa.left)>>]

mapSkip(f, fa) == [ret |-> fa, calls |-> <<>>]

mapBoth(f, fa) ==
  IF isLeft(fa)
    THEN IF fa.left.t = "number"
           THEN [ret |-> right(Apply(f, fa.left)), calls |-> <<Call(f, fa.left)>>]
           ELSE [ret |-> fa, calls |-> <<>>]
    ELSE [ret |-> right(Apply(f, fa.right)), calls |-> <<Call(f, fa.right)>>]

mapToLeft(f, fa) ==
  IF isLeft(fa)
    THEN [ret |-> fa, calls |-> <<>>]
    ELSE [ret |-> left(Apply(f, fa.right)), calls |-> <<Call(f, fa.right)>>]

map(f, fa) ==
  IF isLeft(fa)
    THEN [ret |-> fa, calls |-> <<>>]
    ELSE [ret |-> right(Apply(f, fa.right)), calls |-> <<Call(f, fa.right)>>]

IsOption(ma) == "tag" \in DOMAIN ma /\ ma.tag \in {"None", "Some"}

isNone(fa) == fa.tag = "None"

isSome(fa) == fa.tag = "Some"

O_mapEager(f, fa) ==
  IF isNone(fa)
    THEN [ret |-> none, calls |-> <<Call(f, Undefined)>>]
    ELSE [ret |-> some(Apply(f, fa.value)), calls |-> <<Call(f, fa.value)>>]

O_mapTwice(f, fa) ==
  IF isNone(fa)
    THEN [ret |-> none, calls |-> <<>>]
    ELSE [ret   |-> some(Apply(f, Apply(f, fa.value))),
          calls |-> <<Call(f, fa.value), Call(f, Apply(f, fa.value))>>]

\* map for Option
O_map(f, fa) ==
  IF isNone(fa)
    THEN [ret |-> none, calls |-> <<>>]
    ELSE [ret |-> some(Apply(f, fa.value)), calls |-> <<Call(f, fa.value)>>]

(* ------------------------------ chapter 3 ------------------------------ *)

\* the predicates passed to fromPredicate: (n) => n.length > 2,
\* (n) => n > 0.5 and (n) => n > 5
Test(predicate, a) ==
  CASE predicate = "longerThan2"     -> Len(a.str) > 2
    [] predicate = "greaterThanHalf" -> 2 * a.num > 1
    [] predicate = "greaterThan5"    -> a.num > 5

NumPredicates == {"greaterThanHalf", "greaterThan5"}

fromPredicateTwice(predicate, a) ==
  [ret   |-> IF Test(predicate, a) /\ Test(predicate, a) THEN some(a) ELSE none,
   calls |-> <<Call(predicate, a), Call(predicate, a)>>]

fromPredicate(predicate, a) ==
  [ret   |-> IF Test(predicate, a) THEN some(a) ELSE none,
   calls |-> <<Call(predicate, a)>>]

isValidNameGt5(name) ==
  [ret   |-> IF Len(name.str) > 5 THEN some(name) ELSE none,
   calls |-> <<Call("longerThan2", name)>>]

isValidNameGe2(name) ==
  [ret   |-> IF Len(name.str) >= 2 THEN some(name) ELSE none,
   calls |-> <<Call("longerThan2", name)>>]

isValidName(name) == fromPredicate("longerThan2", name)

(* ------------------------ fromPredicate for Either --------------------- *)

\* what evaluating an identifier that is not in scope produces
ReferenceError(name) == [thrown |-> "ReferenceError", name |-> name]

\* predicate(value) ? right(value) : left(onLeft(a)), where no a is in scope:
\* the argument of onLeft fails to evaluate, so onLeft is never entered
E_fromPredicate(predicate, onLeft, val) ==
  IF Test(predicate, val)
    THEN [ret |-> right(val), calls |-> <<Call(predicate, val)>>]
    ELSE [ret |-> ReferenceError("a"), calls |-> <<Call(predicate, val)>>]

(* --------------------------- pattern matching -------------------------- *)

\* the handlers taking no argument that return a number: () => 0, () => 1
Thunks == {"zero", "one"}

FallbackMessage ==
  <<"H", "e", "y", " ", "t", "h", "e", "r", "e", ",", " ", "i", "s", "n",
    "'", "t", " ", "y", "o", "u", "r", " ", "n", "a", "m", "e", " ", "a",
    " ", "b", "i", "t", " ", "s", "h", "o", "r", "t", "?">>

WelcomePrefix ==
  <<"W", "e", "l", "c", "o", "m", "e", ",", " ">>

WelcomeSuffix ==
  <<",", " ", "y", "o", "u", " ", "h", "a", "v", "e", " ", "a", " ", "g",
    "r", "e", "a", "t", " ", "n", "a", "m", "e", "!">>

Thunk(onNone) ==
  CASE onNone = "zero" -> Num(0)
    [] onNone = "one"  -> Num(1)
    [] onNone = "fallbackMessage" -> Str(FallbackMessage)

\* the handlers taking the payload: the callbacks of Fns and greetUser's
\* (validName) => `Welcome, ${validName}, you have a great name!`
Handle(h, x) ==
  IF h = "greetMessage"
    THEN Str(WelcomePrefix \o x.str \o WelcomeSuffix)
    ELSE Apply(h, x)

Invoked(handler, h, x) == [handler |-> handler, fn |-> h, arg |-> x]

InvokedNoArg(handler, h) == [handler |-> handler, fn |-> h]

O_matchBoth(onNone, onSome, ma) ==
  IF isNone(ma)
    THEN [ret |-> Thunk(onNone), calls |-> <<InvokedNoArg("onNone", onNone)>>]
    ELSE [ret   |-> Handle(onSome, ma.value),
          calls |-> <<InvokedNoArg("onNone", onNone),
                      Invoked("onSome", onSome, ma.value)>>]

\* match for Option
O_match(onNone, onSome, ma) ==
  IF isNone(ma)
    THEN [ret |-> Thunk(onNone), calls |-> <<InvokedNoArg("onNone", onNone)>>]
    ELSE [ret |-> Handle(onSome, ma.value),
          calls |-> <<Invoked("onSome", onSome, ma.value)>>]

\* match for Either
E_match(onLeft, onRight, ma) ==
  IF isLeft(ma)
    THEN [ret |-> Handle(onLeft, ma.left),
          calls |-> <<Invoked("onLeft", onLeft, ma.left)>>]
    ELSE [ret |-> Handle(onRight, ma.right),
          calls |-> <<Invoked("onRight", onRight, ma.right)>>]

greetUserNoName(name) ==
  LET valid == isValidName(name)
      m     == O_match("fallbackMessage", "greetMessage", valid.ret)
  IN  [ret   |-> IF isNone(valid.ret) THEN m.ret
                 ELSE Str(WelcomePrefix \o WelcomeSuffix),
       calls |-> valid.calls \o m.calls]

greetUser(name) ==
  LET valid == isValidName(name)
      m     == O_match("fallbackMessage", "greetMessage", valid.ret)
  IN  [ret |-> m.ret, calls |-> valid.calls \o m.calls]

(* ------------------------------ the pipe ------------------------------- *)

Eithers == {left(Num(n)) : n \in 0..MaxNum} \cup {right(Num(n)) : n \in 0..MaxNum}

Options == {none} \cup {some(Num(n)) : n \in 0..MaxNum}

InitialValues == {Str(s) : s \in Strings} \cup JsValues \cup Eithers \cup Options

Init ==
  /\ steps = <<>>
  /\ calls = <<>>
  /\ \E v \in InitialValues : vals = <<v>>

value == vals[Len(vals)]

\* match is the last stage of a pipe: it takes the value out of its container
Exited == steps # <<>> /\ steps[Len(steps)].op \in {"match", "O.match"}

\* pipe applies the next function to the value produced so far
Push(step, r) ==
  /\ ~Exited
  /\ steps' = Append(steps, step)
  /\ vals' = Append(vals, r.ret)
  /\ calls' = Append(calls, r.calls)

StepFromNullable ==
  /\ Len(steps) < MaxSteps
  /\ IsPrimitive(value)
  /\ \E d \in JsValues :
       Push([op |-> "fromNullable", defaultValue |-> d],
            [ret |-> fromNullable(d, value), calls |-> <<>>])

StepParseString ==
  /\ Len(steps) < MaxSteps
  /\ IsPrimitive(value) /\ value.t = "string"
  /\ \E p \in Patterns :
       Push([op |-> "parseString", pattern |-> Str(p)],
            [ret |-> parseString(p, value.str), calls |-> <<>>])

StepParseRemainder ==
  /\ Len(steps) < MaxSteps
  /\ IsEither(value) /\ isRight(value)
  /\ value.right.t \in {"string", "undefined"}
  /\ \E q \in Patterns :
       Push([op |-> "parseRemainder", pattern |-> Str(q)],
            [ret |-> parseRemainder(q, value), calls |-> <<>>])

StepMapLeft ==
  /\ Len(steps) < MaxSteps
  /\ IsEither(value)
  /\ isLeft(value) => value.left.t = "number"
  /\ \E f \in Fns : Push([op |-> "mapLeft", f |-> f], mapLeft(f, value))

StepMap ==
  /\ Len(steps) < MaxSteps
  /\ IsEither(value)
  /\ isRight(value) => value.right.t = "number"
  /\ \E f \in Fns : Push([op |-> "map", f |-> f], map(f, value))

StepIsValidName ==
  /\ Len(steps) < MaxSteps
  /\ IsPrimitive(value) /\ value.t = "string"
  /\ Push([op |-> "isValidName"], isValidName(value))

StepOptionMap ==
  /\ Len(steps) < MaxSteps
  /\ IsOption(value)
  /\ isSome(value) => value.value.t = "number"
  /\ \E f \in Fns : Push([op |-> "O.map", f |-> f], O_map(f, value))

StepGreetUser ==
  /\ Len(steps) < MaxSteps
  /\ IsPrimitive(value) /\ value.t = "string"
  /\ Len(value.str) <= MaxLen  \* a name, not a message greetUser produced
  /\ Push([op |-> "greetUser"], greetUser(value))

\* the handler pairs an Option can be matched with: onSome must accept the
\* payload (a number for the callbacks of Fns, a name for greetMessage)
OptionHandlers(ma) ==
  {h \in (Thunks \X Fns) \cup {<<"fallbackMessage", "greetMessage">>} :
     isSome(ma) => ((ma.value.t = "string") <=> (h[2] = "greetMessage"))}

StepOptionMatch ==
  /\ Len(steps) < MaxSteps
  /\ IsOption(value)
  /\ \E h \in OptionHandlers(value) :
       Push([op |-> "O.match", onNone |-> h[1], onSome |-> h[2]],
            O_match(h[1], h[2], value))

StepEitherMatch ==
  /\ Len(steps) < MaxSteps
  /\ IsEither(value)
  /\ (IF isLeft(value) THEN value.left ELSE value.right).t = "number"
  /\ \E onLeft \in Fns, onRight \in Fns :
       Push([op |-> "match", onLeft |-> onLeft, onRight |-> onRight],
            E_match(onLeft, onRight, value))

StepFromPredicate ==
  /\ Len(steps) < MaxSteps
  /\ IsPrimitive(value) /\ value.t = "number"
  /\ \E predicate \in NumPredicates :
       Push([op |-> "O.fromPredicate", predicate |-> predicate],
            fromPredicate(predicate, value))

StepEitherFromPredicate ==
  /\ Len(steps) < MaxSteps
  /\ IsPrimitive(value) /\ value.t = "number"
  /\ \E predicate \in NumPredicates, onLeft \in Fns :
       Push([op |-> "fromPredicate", predicate |-> predicate, onLeft |-> onLeft],
            E_fromPredicate(predicate, onLeft, value))

\* how many stages of the pipe are themselves a pipe or a flow
Nested == Cardinality({i \in 1..Len(steps) : steps[i].op \in {"pipe", "flow"}})

StepPipe ==
  /\ Len(steps) < MaxSteps
  /\ Nested < MaxNested
  /\ IsPrimitive(value) /\ value.t = "number"
  /\ \E fs \in FnsUpTo(MaxFns) : Push([op |-> "pipe", fs |-> fs], pipe(value, fs))

StepFlow ==
  /\ Len(steps) < MaxSteps
  /\ Nested < MaxNested
  /\ IsPrimitive(value) /\ value.t = "number"
  /\ \E fs \in FnsUpTo(MaxFns) \ {<<>>} :
       Push([op |-> "flow", fs |-> fs], flow(fs, value))

Next ==
  \/ StepFromNullable
  \/ StepParseString
  \/ StepParseRemainder
  \/ StepMapLeft
  \/ StepMap
  \/ StepIsValidName
  \/ StepOptionMap
  \/ StepGreetUser
  \/ StepOptionMatch
  \/ StepEitherMatch
  \/ StepFromPredicate
  \/ StepEitherFromPredicate
  \/ StepPipe
  \/ StepFlow

Spec == Init /\ [][Next]_vars

(* ------------------------------ properties ----------------------------- *)

StepIdx == 1..Len(steps)

StartsWith(input, pattern) ==
  Len(pattern) <= Len(input) /\ SubSeq(input, 1, Len(pattern)) = pattern

Remainder(input, pattern) == SubSeq(input, Len(pattern) + 1, Len(input))

IsNullish(a) == IsPrimitive(a) /\ a.t \in {"undefined", "null"}

\* C1: whenever input starts with a (non-empty; the empty one is C3) pattern,
\* parseString(pattern)(input) is Right(remainder) with
\* pattern ++ remainder = input, also when pattern occurs again later.
C1_LeadingPatternRemoved ==
  \A i \in StepIdx :
    (/\ steps[i].op = "parseString"
     /\ steps[i].pattern.str # <<>>
     /\ StartsWith(vals[i].str, steps[i].pattern.str))
    => vals[i + 1] = right(Str(Remainder(vals[i].str, steps[i].pattern.str)))

\* C2: whenever input does not start with pattern, parseString(pattern)(input)
\* is Left("could not parse").
C2_NoPrefixIsLeft ==
  \A i \in StepIdx :
    (/\ steps[i].op = "parseString"
     /\ ~StartsWith(vals[i].str, steps[i].pattern.str))
    => vals[i + 1] = left(CouldNotParse)

\* C3: with the empty pattern, parseString("")(input) is Right(input) for
\* every input.
C3_EmptyPatternMatches ==
  \A i \in StepIdx :
    (steps[i].op = "parseString" /\ steps[i].pattern.str = <<>>)
    => vals[i + 1] = right(vals[i])

\* C4: fromNullable(defaultValue)(a) is Left(defaultValue) when a is null and
\* when a is undefined.
C4_NullishIsLeftDefault ==
  \A i \in StepIdx :
    (steps[i].op = "fromNullable" /\ IsNullish(vals[i]))
    => vals[i + 1] = left(steps[i].defaultValue)

C4_Witness ==
  \E i \in StepIdx :
    /\ steps[i].op = "fromNullable"
    /\ vals[i] = Undefined
    /\ steps[i].defaultValue = Str(<<"a">>)
    /\ vals[i + 1] = left(Str(<<"a">>))

\* C5: fromNullable(defaultValue)(a) is Right(a), payload unchanged, for every
\* a that is neither null nor undefined, the falsy "", 0 and false included.
C5_DefinedIsRight ==
  \A i \in StepIdx :
    (steps[i].op = "fromNullable" /\ ~IsNullish(vals[i]))
    => vals[i + 1] = right(vals[i])

C5_Witness ==
  \E i \in StepIdx :
    /\ steps[i].op = "fromNullable"
    /\ vals[i] = Str(<<>>)
    /\ vals[i + 1] = right(Str(<<>>))

\* C6: mapLeft(f)(Right(a)) returns the Right value unchanged and never
\* invokes f.
C6_MapLeftSkipsRight ==
  \A i \in StepIdx :
    (steps[i].op = "mapLeft" /\ isRight(vals[i]))
    => vals[i + 1] = vals[i] /\ calls[i] = <<>>

C6_Witness ==
  \E i \in StepIdx :
    /\ steps[i].op = "mapLeft"
    /\ steps[i].f = "increment"
    /\ vals[i] = right(Num(1))
    /\ vals[i + 1] = right(Num(1))

\* what each callback computes, tabulated independently of Apply
Expected(f, n) ==
  IF f = "increment" THEN n + 1 ELSE IF f = "multBy10" THEN 10 * n ELSE n

\* C7: mapLeft(f)(Left(e)) returns Left(f(e)) and invokes f exactly once, on e.
C7_MapLeftMapsLeft ==
  \A i \in StepIdx :
    (steps[i].op = "mapLeft" /\ isLeft(vals[i]))
    => /\ isLeft(vals[i + 1])
       /\ vals[i + 1].left = Num(Expected(steps[i].f, vals[i].left.num))
       /\ Len(calls[i]) = 1
       /\ calls[i][1] = Call(steps[i].f, vals[i].left)

C7_Witness ==
  \E i \in StepIdx :
    /\ steps[i].op = "mapLeft"
    /\ steps[i].f = "increment"
    /\ vals[i] = left(Num(1))
    /\ vals[i + 1] = left(Num(2))

\* C8: applying map(f) and mapLeft(g) to fa, in either order, invokes exactly
\* one of f and g: f only when fa is Right, g only when fa is Left.
C8_ExactlyOneFires ==
  \A i \in StepIdx :
    (/\ i + 1 \in StepIdx
     /\ {steps[i].op, steps[i + 1].op} = {"map", "mapLeft"})
    => LET m  == IF steps[i].op = "map" THEN i ELSE i + 1
           ml == IF steps[i].op = "mapLeft" THEN i ELSE i + 1
       IN  IF isRight(vals[i])
             THEN Len(calls[m]) = 1 /\ calls[ml] = <<>>
             ELSE calls[m] = <<>> /\ Len(calls[ml]) = 1

C8_Witness ==
  /\ Len(steps) = 2
  /\ steps[1].op = "mapLeft" /\ steps[2].op = "map"
  /\ vals[1] = left(Num(1))
  /\ Len(calls[1]) = 1 /\ calls[2] = <<>>

C12_OptionMap ==
  \A i \in StepIdx :
    steps[i].op = "O.map"
    => IF isNone(vals[i])
         THEN vals[i + 1] = none /\ calls[i] = <<>>
         ELSE /\ vals[i + 1] = some(Num(Expected(steps[i].f, vals[i].value.num)))
              /\ calls[i] = <<Call(steps[i].f, vals[i].value)>>

C12_Witness ==
  \E i \in StepIdx :
    /\ steps[i].op = "O.map"
    /\ steps[i].f = "increment"
    /\ vals[i] = none
    /\ vals[i + 1] = none
    /\ calls[i] = <<>>

\* C13: Either map(f) applied to Left(e) returns that Left(e) unchanged without
\* invoking f, and applied to Right(a) returns Right(f(a)).
C13_EitherMap ==
  \A i \in StepIdx :
    steps[i].op = "map"
    => IF isLeft(vals[i])
         THEN vals[i + 1] = vals[i] /\ calls[i] = <<>>
         ELSE vals[i + 1] = right(Num(Expected(steps[i].f, vals[i].right.num)))

C13_Witness ==
  \E i \in StepIdx :
    /\ steps[i].op = "map"
    /\ steps[i].f = "multBy10"
    /\ vals[i] = right(Num(2))
    /\ vals[i + 1] = right(Num(20))

\* C14: functor identity law: map(x => x)(fa) is structurally equal to fa, for
\* every Option and every Either value fa.
C14_FunctorIdentity ==
  \A i \in StepIdx :
    (steps[i].op \in {"map", "O.map"} /\ steps[i].f = "identity")
    => vals[i + 1] = vals[i]

C14_Witness ==
  \E i \in StepIdx :
    /\ steps[i].op = "map"
    /\ steps[i].f = "identity"
    /\ vals[i] = right(Num(1))
    /\ vals[i + 1] = right(Num(1))

\* x => g(f(x))
Composed(f, g, n) == Expected(g, Expected(f, n))

\* C15: functor composition law: map(g)(map(f)(fa)) equals
\* map(x => g(f(x)))(fa), for every Option and Either value fa.
C15_FunctorComposition ==
  \A i \in StepIdx :
    (i + 1 \in StepIdx /\ steps[i].op = steps[i + 1].op)
    => LET fa == vals[i]
           f  == steps[i].f
           g  == steps[i + 1].f
       IN  CASE steps[i].op = "map" ->
                  vals[i + 2] = IF isLeft(fa) THEN fa
                                ELSE right(Num(Composed(f, g, fa.right.num)))
             [] steps[i].op = "O.map" ->
                  vals[i + 2] = IF isNone(fa) THEN none
                                ELSE some(Num(Composed(f, g, fa.value.num)))
             [] OTHER -> TRUE

C15_Witness ==
  /\ Len(steps) = 2
  /\ steps[1] = [op |-> "O.map", f |-> "increment"]
  /\ steps[2] = [op |-> "O.map", f |-> "multBy10"]
  /\ vals[1] = some(Num(1))
  /\ vals[3] = some(Num(20))

\* C11: greetUser(name) is "Welcome, ${name}, you have a great name!", the
\* name embedded unchanged, when isValidName(name) is Some, and the fallback
\* "Hey there, isn't your name a bit short?" when it is None.
C11_GreetUser ==
  \A i \in StepIdx :
    steps[i].op = "greetUser"
    => IF isSome(isValidName(vals[i]).ret)
         THEN vals[i + 1] = Str(WelcomePrefix \o vals[i].str \o WelcomeSuffix)
         ELSE vals[i + 1] = Str(FallbackMessage)

C11_Witness ==
  \E i \in StepIdx :
    /\ steps[i].op = "greetUser"
    /\ vals[i] = Str(<<"a", "b", "a">>)
    /\ vals[i + 1] = Str(WelcomePrefix \o <<"a", "b", "a">> \o WelcomeSuffix)

\* C16: match invokes exactly one of its two handlers: onNone with no argument
\* for None, onSome with the payload for Some, onLeft with the Left payload for
\* Left, onRight with the Right payload for Right; the result of match is that
\* handler's return value.
C16_ExhaustiveMatch ==
  \A i \in StepIdx :
    steps[i].op \in {"O.match", "match"}
    => LET ma == vals[i]
           st == steps[i]
       IN  /\ Len(calls[i]) = 1
           /\ CASE ma.tag = "None" ->
                     /\ calls[i][1] = InvokedNoArg("onNone", st.onNone)
                     /\ vals[i + 1] = Thunk(st.onNone)
                [] ma.tag = "Some" ->
                     /\ calls[i][1] = Invoked("onSome", st.onSome, ma.value)
                     /\ vals[i + 1] = Handle(st.onSome, ma.value)
                [] ma.tag = "Left" ->
                     /\ calls[i][1] = Invoked("onLeft", st.onLeft, ma.left)
                     /\ vals[i + 1] = Handle(st.onLeft, ma.left)
                [] ma.tag = "Right" ->
                     /\ calls[i][1] = Invoked("onRight", st.onRight, ma.right)
                     /\ vals[i + 1] = Handle(st.onRight, ma.right)

C16_Witness ==
  \E i \in StepIdx :
    /\ steps[i] = [op |-> "O.match", onNone |-> "one", onSome |-> "increment"]
    /\ vals[i] = some(Num(1))
    /\ vals[i + 1] = Num(2)
    /\ Len(calls[i]) = 1

\* the truth of each predicate, tabulated independently of Test
Holds(predicate, a) ==
  IF predicate = "longerThan2" THEN Len(a.str) >= 3
  ELSE IF predicate = "greaterThanHalf" THEN a.num >= 1
  ELSE a.num >= 6

PredicateOf(step) ==
  IF step.op = "isValidName" THEN "longerThan2" ELSE step.predicate

\* C17: Option fromPredicate(predicate)(value) evaluates predicate(value)
\* exactly once and returns Some(value) iff the predicate is true, none
\* otherwise.
C17_OptionFromPredicate ==
  \A i \in StepIdx :
    steps[i].op \in {"O.fromPredicate", "isValidName"}
    => LET predicate == PredicateOf(steps[i])
       IN  /\ calls[i] = <<Call(predicate, vals[i])>>
           /\ vals[i + 1] = IF Holds(predicate, vals[i]) THEN some(vals[i]) ELSE none

C17_Witness ==
  \E i \in StepIdx :
    /\ steps[i] = [op |-> "O.fromPredicate", predicate |-> "greaterThanHalf"]
    /\ vals[i] = Num(1)
    /\ vals[i + 1] = some(Num(1))
    /\ Len(calls[i]) = 1

\* C18: Either fromPredicate(predicate, onLeft)(value) returns Right(value)
\* iff predicate(value) is true and otherwise Left(onLeft(value)); onLeft is
\* invoked only when the predicate is false, on the original value; predicate
\* and onLeft are each invoked at most once.
C18_EitherFromPredicate ==
  \A i \in StepIdx :
    steps[i].op = "fromPredicate"
    => IF Holds(steps[i].predicate, vals[i])
         THEN /\ vals[i + 1] = right(vals[i])
              /\ calls[i] = <<Call(steps[i].predicate, vals[i])>>
         ELSE /\ vals[i + 1] = left(Num(Expected(steps[i].onLeft, vals[i].num)))
              /\ calls[i] = <<Call(steps[i].predicate, vals[i]),
                              Call(steps[i].onLeft, vals[i])>>

\* fn(...f2(f1(n))), written from the outermost function inwards
RECURSIVE NestedApply(_, _)
NestedApply(fs, n) ==
  IF fs = <<>> THEN n
  ELSE Expected(fs[Len(fs)], NestedApply(SubSeq(fs, 1, Len(fs) - 1), n))

\* C19: pipe(x, f1, ..., fn) equals fn(...f2(f1(x))), the functions applied
\* left to right; pipe(x) with no function returns x unchanged; and
\* flow(f1, ..., fn)(x) equals pipe(x, f1, ..., fn).
C19_PipeAndFlow ==
  \A i \in StepIdx :
    steps[i].op \in {"pipe", "flow"}
    => LET fs == steps[i].fs
       IN  /\ vals[i + 1] = Num(NestedApply(fs, vals[i].num))
           /\ Len(calls[i]) = Len(fs)
           /\ \A k \in 1..Len(fs) : calls[i][k].fn = fs[k]
           /\ fs = <<>> => vals[i + 1] = vals[i]
           /\ steps[i].op = "flow" =>
                /\ vals[i + 1] = pipe(vals[i], fs).ret
                /\ calls[i] = pipe(vals[i], fs).calls

C19_Witness ==
  \E i \in StepIdx :
    /\ steps[i] = [op |-> "flow", fs |-> <<"increment", "multBy10">>]
    /\ vals[i] = Num(1)
    /\ vals[i + 1] = Num(20)

\* the stages i .. j-1 of the pipe are all among ops
AllOps(i, j, ops) == \A k \in i..(j - 1) : steps[k].op \in ops

\* C20: after any sequence of map and mapLeft steps on an Either (of map steps
\* on an Option) the variant tag is the starting one; a starting Left(e) keeps
\* e through every map step, a starting Right(a) keeps a through every mapLeft
\* step, and a starting None stays None.
C20_VariantPreserved ==
  \A i \in StepIdx : \A j \in (i + 1)..Len(vals) :
    AllOps(i, j, {"map", "mapLeft", "O.map"})
    => /\ vals[j].tag = vals[i].tag
       /\ (isLeft(vals[i]) /\ AllOps(i, j, {"map"})) => vals[j] = vals[i]
       /\ (isRight(vals[i]) /\ AllOps(i, j, {"mapLeft"})) => vals[j] = vals[i]
       /\ isLeft(vals[i]) =>
            \A k \in i..(j - 1) : steps[k].op = "map" => vals[k + 1] = vals[k]
       /\ isRight(vals[i]) =>
            \A k \in i..(j - 1) : steps[k].op = "mapLeft" => vals[k + 1] = vals[k]
       /\ isNone(vals[i]) => vals[j] = none

C20_Witness ==
  /\ Len(steps) = 3
  /\ steps[1].op = "map" /\ steps[2].op = "mapLeft" /\ steps[3].op = "map"
  /\ steps[2].f = "increment"
  /\ vals[1] = left(Num(1))
  /\ vals[2] = left(Num(1))
  /\ vals[4] = left(Num(2))

\* C21: whenever parseString(pattern)(input) is a Right, its payload is a
\* defined string, as the declared result type Either<string, string> says;
\* this covers the empty input with a non-empty pattern.
C21_RightPayloadIsString ==
  \A i \in StepIdx :
    (steps[i].op = "parseString" /\ isRight(vals[i + 1]))
    => (IsPrimitive(vals[i + 1].right) /\ vals[i + 1].right.t = "string")

\* C22: parseString composes sequentially: when input starts with p, parsing
\* p and then parsing q on the Right remainder gives the result of
\* parseString(p ++ q)(input), and a Left from the first parse is a Left of
\* the combined parse, for every q.
C22_SequentialComposition ==
  \A i \in StepIdx :
    steps[i].op = "parseString"
    => LET p     == steps[i].pattern.str
           input == vals[i].str
       IN  /\ (/\ i + 1 \in StepIdx
               /\ steps[i + 1].op = "parseRemainder"
               /\ StartsWith(input, p))
              => vals[i + 2] = parseString(p \o steps[i + 1].pattern.str, input)
           /\ isLeft(vals[i + 1])
              => \A q \in Patterns : isLeft(parseString(p \o q, input))

\* C23: mapLeft obeys the functor laws on the Left side: mapLeft(x => x)(fa)
\* is structurally equal to fa, and mapLeft(g)(mapLeft(f)(fa)) equals
\* mapLeft(x => g(f(x)))(fa), for every Either fa.
C23_MapLeftFunctorLaws ==
  \A i \in StepIdx :
    steps[i].op = "mapLeft"
    => LET fa == vals[i]
           f  == steps[i].f
       IN  /\ f = "identity" => vals[i + 1] = fa
           /\ (i + 1 \in StepIdx /\ steps[i + 1].op = "mapLeft")
              => vals[i + 2] =
                   IF isRight(fa) THEN fa
                   ELSE left(Num(Composed(f, steps[i + 1].f, fa.left.num)))

C23_Witness ==
  /\ Len(steps) = 3
  /\ \A i \in StepIdx : steps[i].op = "mapLeft"
  /\ steps[1].f = "identity" /\ steps[2].f = "increment" /\ steps[3].f = "multBy10"
  /\ vals = <<left(Num(1)), left(Num(1)), left(Num(2)), left(Num(20))>>

====
